---- MODULE Spec2Model ----
(***************************************************************************)
(* influx3_lp: #[derive(Influx3Lp)] expands a struct declaration into an   *)
(* implementation of Influx3Lp::to_lp, which serialises one instance of    *)
(* the struct into one InfluxDB 3 line-protocol line.                      *)
(*                                                                         *)
(* A Rust String is modelled as a sequence of one-character strings (all   *)
(* characters used are ASCII, so the byte length is the sequence length).  *)
(* Option<T> is modelled as a sequence of length 0 (None) or 1 (Some).     *)
(***************************************************************************)
EXTENDS Integers, Sequences, FiniteSets, TLC

VARIABLES
    input,      \* the struct declaration handed to the derive macro
    self,       \* the struct instance to_lp is called on
    gen,        \* what the derive macro produced (the generated impl, or a panic)
    locals,     \* the local variables of to_lp at its return
    out         \* what to_lp returned (a line, or a panic)

vars == <<input, self, gen, locals, out>>

(***************************************************************************)
(* Option and values                                                       *)
(***************************************************************************)
None == <<>>
Some(x) == <<x>>
IsSome(o) == Len(o) > 0
Unwrap(o) == o[1]

\* A member value is an integer for the integer types, a BOOLEAN for bool, a
\* string for String, and for f32/f64 the value in tenths (359 is 35.9).
SignedTypes == {"i8", "i16", "i32", "i64"}
UnsignedTypes == {"u8", "u16", "u32", "u64"}
FloatTypes == {"f32", "f64"}

(***************************************************************************)
(* std: str::replace, slice::join, Display                                 *)
(***************************************************************************)
\* str::replace(from, to) for a one-character pattern: every occurrence of
\* from becomes to, every other character is copied.  Computed by halving so
\* that 64K-long strings can be evaluated.
RECURSIVE Replace(_, _, _)
Replace(s, from, to) ==
    IF Len(s) = 0 THEN <<>>
    ELSE IF Len(s) = 1 THEN (IF s[1] = from THEN to ELSE s)
    ELSE LET h == Len(s) \div 2
         IN  Replace(SubSeq(s, 1, h), from, to)
                 \o Replace(SubSeq(s, h + 1, Len(s)), from, to)

\* [String]::join(sep)
RECURSIVE Join(_, _)
Join(v, sep) ==
    IF Len(v) = 0 THEN <<>>
    ELSE IF Len(v) = 1 THEN v[1]
    ELSE v[1] \o sep \o Join(Tail(v), sep)

Digit(d) == CASE d = 0 -> "0" [] d = 1 -> "1" [] d = 2 -> "2" [] d = 3 -> "3"
              [] d = 4 -> "4" [] d = 5 -> "5" [] d = 6 -> "6" [] d = 7 -> "7"
              [] d = 8 -> "8" [] d = 9 -> "9"

RECURSIVE NatToString(_)
NatToString(x) ==
    IF x < 10 THEN <<Digit(x)>>
    ELSE NatToString(x \div 10) \o <<Digit(x % 10)>>

\* Display for the integer types
IntToString(x) == IF x < 0 THEN <<"-">> \o NatToString(0 - x) ELSE NatToString(x)

\* Display for bool
BoolToString(x) == IF x THEN <<"t", "r", "u", "e">> ELSE <<"f", "a", "l", "s", "e">>

\* Display for f32/f64 of a finite value with at most one fractional digit
\* (held in tenths): the shortest decimal form, no exponent, no trailing ".0".
FloatToString(x) ==
    LET a == IF x < 0 THEN 0 - x ELSE x
        sign == IF x < 0 THEN <<"-">> ELSE <<>>
    IN  sign \o NatToString(a \div 10)
             \o (IF a % 10 = 0 THEN <<>> ELSE <<".", Digit(a % 10)>>)

\* format!("{}", v) / v.to_string() for a value of declared type ty
Display(ty, v) ==
    IF ty \in SignedTypes \cup UnsignedTypes THEN IntToString(v)
    ELSE IF ty \in FloatTypes THEN FloatToString(v)
    ELSE IF ty = "bool" THEN BoolToString(v)
    ELSE v

(***************************************************************************)
(* StringExtensions                                                        *)
(***************************************************************************)
\* (mutant) the measurement name gets a further pass that escapes backslashes
escape_table_backslash(s) ==
    Replace(Replace(Replace(s, ",", <<"\\", ",">>), " ", <<"\\", " ">>),
            "\\", <<"\\", "\\">>)

escape_table(s) ==
    Replace(Replace(s, ",", <<"\\", ",">>), " ", <<"\\", " ">>)

escape_tag_key(s) ==
    Replace(Replace(Replace(s, ",", <<"\\", ",">>), " ", <<"\\", " ">>),
            "=", <<"\\", "=">>)

escape_field_key(s) ==
    Replace(Replace(Replace(s, ",", <<"\\", ",">>), " ", <<"\\", " ">>),
            "=", <<"\\", "=">>)

(***************************************************************************)
(* The derive macro: influx3_lp_macro_derive                               *)
(*                                                                         *)
(* A declaration is [table_name, members]: table_name is the literal of    *)
(* #[influx3_lp(table_name = ...)] (None when the attribute is missing);   *)
(* a member is [ident, attr, option, ty] with attr the member's            *)
(* #[influx3_lp(..)] attribute ("tag", "timestamp" or "none"), and the     *)
(* declared type either ty or Option<ty>.                                  *)
(***************************************************************************)
is_option(m) == IF m.option THEN Some(m.ty) ELSE None

\* The code pushed for one member: idx stands for self.#ident.
TagCode(members, i) ==
    [idx |-> i, key |-> escape_tag_key(members[i].ident),
     option |-> IsSome(is_option(members[i])), ty |-> members[i].ty]

TimestampCode(members, i) ==
    [idx |-> i, option |-> IsSome(is_option(members[i])), ty |-> members[i].ty]

FieldCode(members, i) ==
    [idx |-> i, key |-> escape_field_key(members[i].ident),
     option |-> IsSome(is_option(members[i])), ty |-> members[i].ty]

\* The codes of the members carrying attribute attr, in declaration order.
RECURSIVE CodesOf(_, _, _)
CodesOf(members, attr, i) ==
    IF i > Len(members) THEN <<>>
    ELSE (IF members[i].attr = attr
          THEN <<IF attr = "tag" THEN TagCode(members, i)
                 ELSE IF attr = "timestamp" THEN TimestampCode(members, i)
                 ELSE FieldCode(members, i)>>
          ELSE <<>>)
         \o CodesOf(members, attr, i + 1)

MissingTableName == "Missing table_name in #[influx3_lp]"
NoFieldMessage == "should have at least one field"
\* "Length of string field value has a limit of 64K"
StringLimitMessage ==
    <<"L", "e", "n", "g", "t", "h", " ", "o", "f", " ", "s", "t", "r", "i",
      "n", "g", " ", "f", "i", "e", "l", "d", " ", "v", "a", "l", "u", "e",
      " ", "h", "a", "s", " ", "a", " ", "l", "i", "m", "i", "t", " ", "o",
      "f", " ", "6", "4", "K">>

NoImpl == [status |-> "none", msg |-> "", table_name |-> <<>>,
           tags |-> <<>>, fields |-> <<>>, timestamp |-> None]

MacroPanic(m) == [NoImpl EXCEPT !.status = "panic", !.msg = m]

\* (mutant) the macro does not look at the number of field members
influx3_lp_macro_derive_unchecked(decl) ==
    IF ~IsSome(decl.table_name) THEN MacroPanic(MissingTableName)
    ELSE [status |-> "ok", msg |-> "",
          table_name |-> escape_table(Unwrap(decl.table_name)),
          tags |-> CodesOf(decl.members, "tag", 1),
          fields |-> CodesOf(decl.members, "none", 1),
          timestamp |-> IF CodesOf(decl.members, "timestamp", 1) = <<>> THEN None
                        ELSE Some(CodesOf(decl.members, "timestamp", 1)
                                    [Len(CodesOf(decl.members, "timestamp", 1))])]

influx3_lp_macro_derive(decl) ==
    LET table_name == IF IsSome(decl.table_name)
                      THEN Some(escape_table(Unwrap(decl.table_name)))
                      ELSE None
        tags == CodesOf(decl.members, "tag", 1)
        fields == CodesOf(decl.members, "none", 1)
        stamps == CodesOf(decl.members, "timestamp", 1)
        \* each timestamp member overwrites the one before it
        timestamp == IF Len(stamps) = 0 THEN None ELSE Some(stamps[Len(stamps)])
    IN  IF ~IsSome(table_name) THEN MacroPanic(MissingTableName)
        ELSE IF Len(fields) = 0 THEN MacroPanic(NoFieldMessage)
        ELSE [status |-> "ok", msg |-> "", table_name |-> Unwrap(table_name),
              tags |-> tags, fields |-> fields, timestamp |-> timestamp]

(***************************************************************************)
(* The generated to_lp                                                     *)
(***************************************************************************)
StringLimit == 64 * 1024

Format2(key, value) == key \o <<"=">> \o value

\* (mutant) an Option tag holding None pushes its key with an empty value
TagPushDefault(c, this) ==
    <<Format2(c.key,
        Replace(Replace(Replace(
            IF c.option
            THEN (IF IsSome(this[c.idx]) THEN Display(c.ty, Unwrap(this[c.idx])) ELSE <<>>)
            ELSE Display(c.ty, this[c.idx]),
            ",", <<"\\", ",">>), " ", <<"\\", " ">>), "=", <<"\\", "=">>))>>

\* what one tag member pushes onto parts
TagPush(c, this) ==
    IF c.option
    THEN IF IsSome(this[c.idx])
         THEN <<Format2(c.key,
                  Replace(Replace(Replace(Display(c.ty, Unwrap(this[c.idx])),
                      ",", <<"\\", ",">>), " ", <<"\\", " ">>), "=", <<"\\", "=">>))>>
         ELSE <<>>
    ELSE <<Format2(c.key,
             Replace(Replace(Replace(Display(c.ty, this[c.idx]),
                 ",", <<"\\", ",">>), " ", <<"\\", " ">>), "=", <<"\\", "=">>))>>

\* (mutant) the unsigned branch appends the signed suffix
OptionFieldValueSignedSuffix(ty, v) ==
    IF ty \in {"i8", "i16", "i32", "i64"}
    THEN [panic |-> FALSE, text |-> Display(ty, v) \o <<"i">>]
    ELSE IF ty \in {"u8", "u16", "u32", "u64"}
    THEN [panic |-> FALSE, text |-> Display(ty, v) \o <<"i">>]
    ELSE IF ty = "String"
    THEN LET t == Display(ty, v)
         IN  IF Len(t) > 64 * 1024
             THEN [panic |-> TRUE, text |-> <<>>]
             ELSE [panic |-> FALSE,
                   text |-> <<"\"">>
                            \o Replace(Replace(t, "\\", <<"\\", "\\">>), "\"", <<"\\", "\"">>)
                            \o <<"\"">>]
    ELSE [panic |-> FALSE, text |-> Display(ty, v)]

\* (mutant) the Option<String> branch does not escape backslashes
OptionFieldValueNoBackslash(ty, v) ==
    IF ty \in {"i8", "i16", "i32", "i64"}
    THEN [panic |-> FALSE, text |-> Display(ty, v) \o <<"i">>]
    ELSE IF ty \in {"u8", "u16", "u32", "u64"}
    THEN [panic |-> FALSE, text |-> Display(ty, v) \o <<"u">>]
    ELSE IF ty = "String"
    THEN LET t == Display(ty, v)
         IN  IF Len(t) > 64 * 1024
             THEN [panic |-> TRUE, text |-> <<>>]
             ELSE [panic |-> FALSE,
                   text |-> <<"\"">> \o Replace(t, "\"", <<"\\", "\"">>) \o <<"\"">>]
    ELSE [panic |-> FALSE, text |-> Display(ty, v)]

\* The value block of an Option<ty> field holding Some(v): [panic, text]
OptionFieldValue(ty, v) ==
    IF ty \in {"i8", "i16", "i32", "i64"}
    THEN [panic |-> FALSE, text |-> Display(ty, v) \o <<"i">>]
    ELSE IF ty \in {"u8", "u16", "u32", "u64"}
    THEN [panic |-> FALSE, text |-> Display(ty, v) \o <<"u">>]
    ELSE IF ty = "String"
    THEN LET t == Display(ty, v)
         IN  IF Len(t) > StringLimit
             THEN [panic |-> TRUE, text |-> <<>>]
             ELSE [panic |-> FALSE,
                   text |-> <<"\"">>
                            \o Replace(Replace(t, "\\", <<"\\", "\\">>), "\"", <<"\\", "\"">>)
                            \o <<"\"">>]
    ELSE [panic |-> FALSE, text |-> Display(ty, v)]

\* (mutant) the length check of the plain branch rejects 64K itself
PlainFieldValueOffByOne(ty, v) ==
    IF ty = "String" /\ Len(v) = StringLimit
    THEN [panic |-> TRUE, text |-> <<>>]
    ELSE OptionFieldValue(ty, v)

\* (mutant) the plain branch escapes double quotes before backslashes
PlainFieldValueQuoteFirst(ty, v) ==
    IF ty = "String" /\ Len(v) <= StringLimit
    THEN [panic |-> FALSE,
          text |-> <<"\"">>
                   \o Replace(Replace(v, "\"", <<"\\", "\"">>), "\\", <<"\\", "\\">>)
                   \o <<"\"">>]
    ELSE OptionFieldValue(ty, v)

\* The value block of a field of plain type ty holding v: [panic, text]
PlainFieldValue(ty, v) ==
    IF ty \in {"i8", "i16", "i32", "i64"}
    THEN [panic |-> FALSE, text |-> Display(ty, v) \o <<"i">>]
    ELSE IF ty \in {"u8", "u16", "u32", "u64"}
    THEN [panic |-> FALSE, text |-> Display(ty, v) \o <<"u">>]
    ELSE IF ty = "String"
    THEN LET t == Display(ty, v)
         IN  IF Len(t) > StringLimit
             THEN [panic |-> TRUE, text |-> <<>>]
             ELSE [panic |-> FALSE,
                   text |-> <<"\"">>
                            \o Replace(Replace(t, "\\", <<"\\", "\\">>), "\"", <<"\\", "\"">>)
                            \o <<"\"">>]
    ELSE [panic |-> FALSE, text |-> Display(ty, v)]

\* what one field member does: [panic, push]
FieldPush(c, this) ==
    IF c.option
    THEN IF IsSome(this[c.idx])
         THEN LET r == OptionFieldValue(c.ty, Unwrap(this[c.idx]))
              IN  [panic |-> r.panic,
                   push |-> IF r.panic THEN <<>> ELSE <<Format2(c.key, r.text)>>]
         ELSE [panic |-> FALSE, push |-> <<>>]
    ELSE LET r == PlainFieldValue(c.ty, this[c.idx])
         IN  [panic |-> r.panic,
              push |-> IF r.panic THEN <<>> ELSE <<Format2(c.key, r.text)>>]

\* (mutant) the tag codes push in reverse order
RECURSIVE RunTagsReversed(_, _, _)
RunTagsReversed(codes, this, i) ==
    IF i > Len(codes) THEN <<>>
    ELSE RunTagsReversed(codes, this, i + 1) \o TagPush(codes[i], this)

\* #(#tags)* : parts after the tag codes from the i-th on have run
RECURSIVE RunTags(_, _, _)
RunTags(codes, this, i) ==
    IF i > Len(codes) THEN <<>>
    ELSE TagPush(codes[i], this) \o RunTags(codes, this, i + 1)

\* #(#fields)* : [panic, fields] after the field codes from the i-th on have
\* run; a panic ends the call.
RECURSIVE RunFields(_, _, _)
RunFields(codes, this, i) ==
    IF i > Len(codes) THEN [panic |-> FALSE, fields |-> <<>>]
    ELSE LET r == FieldPush(codes[i], this)
         IN  IF r.panic THEN [panic |-> TRUE, fields |-> <<>>]
             ELSE LET rest == RunFields(codes, this, i + 1)
                  IN  [panic |-> rest.panic,
                       fields |-> IF rest.panic THEN <<>> ELSE r.push \o rest.fields]

\* #timestamp_code : the value of ts
TimestampText(c, this) ==
    IF c.option
    THEN IF IsSome(this[c.idx]) THEN Display(c.ty, Unwrap(this[c.idx])) ELSE <<>>
    ELSE Display(c.ty, this[c.idx])

NoResult == [kind |-> "none", line |-> <<>>, msg |-> <<>>]
Returned(l) == [kind |-> "line", line |-> l, msg |-> <<>>]
Panicked(m) == [kind |-> "panic", line |-> <<>>, msg |-> m]

\* The local variables of to_lp when it returns: the vectors parts and
\* fields, ts (empty without a timestamp member) and tags_str.  A panic
\* unwinds the frame.
NoFrame == [panic |-> FALSE, parts |-> <<>>, fields |-> <<>>, ts |-> <<>>,
            tags_str |-> <<>>]

\* (mutant) tags_str always starts with a comma
FrameAlwaysComma(impl, this) ==
    LET parts == RunTags(impl.tags, this, 1)
        fr == RunFields(impl.fields, this, 1)
    IN  IF fr.panic THEN [NoFrame EXCEPT !.panic = TRUE]
        ELSE [panic |-> FALSE, parts |-> parts, fields |-> fr.fields,
              ts |-> IF IsSome(impl.timestamp)
                     THEN TimestampText(Unwrap(impl.timestamp), this)
                     ELSE <<>>,
              tags_str |-> <<",">> \o Join(parts, <<",">>)]

Frame(impl, this) ==
    LET parts == RunTags(impl.tags, this, 1)
        fr == RunFields(impl.fields, this, 1)
    IN  IF fr.panic THEN [NoFrame EXCEPT !.panic = TRUE]
        ELSE [panic |-> FALSE, parts |-> parts, fields |-> fr.fields,
              ts |-> IF IsSome(impl.timestamp)
                     THEN TimestampText(Unwrap(impl.timestamp), this)
                     ELSE <<>>,
              tags_str |-> IF Len(parts) = 0 THEN <<>>
                           ELSE <<",">> \o Join(parts, <<",">>)]

\* (mutant) the panic message ends with the key of the field that panicked
RECURSIVE PanickingKey(_, _, _)
PanickingKey(codes, this, i) ==
    IF i > Len(codes) THEN <<>>
    ELSE IF FieldPush(codes[i], this).panic THEN codes[i].key
    ELSE PanickingKey(codes, this, i + 1)

to_lp_names_key(impl, this) ==
    LET f == Frame(impl, this)
    IN  IF f.panic
        THEN Panicked(StringLimitMessage \o <<":", " ">>
                      \o PanickingKey(impl.fields, this, 1))
        ELSE Returned(impl.table_name \o f.tags_str \o <<" ">>
                      \o Join(f.fields, <<",">>)
                      \o (IF Len(f.ts) > 0 THEN <<" ">> \o f.ts ELSE <<>>))

to_lp(impl, this) ==
    LET f == Frame(impl, this)
    IN  IF f.panic THEN Panicked(StringLimitMessage)
        ELSE IF IsSome(impl.timestamp)
        THEN IF Len(f.ts) > 0
             THEN Returned(impl.table_name \o f.tags_str \o <<" ">>
                           \o Join(f.fields, <<",">>) \o <<" ">> \o f.ts)
             ELSE Returned(impl.table_name \o f.tags_str \o <<" ">>
                           \o Join(f.fields, <<",">>))
        ELSE Returned(impl.table_name \o f.tags_str \o <<" ">>
                      \o Join(f.fields, <<",">>))

(***************************************************************************)
(* Inputs: struct declarations and their instances                         *)
(***************************************************************************)
MaxMembers == 3     \* members of a declaration of the structural family
MaxStrLen == 3      \* length of the strings of the escaping family

Member(ident, attr, option, ty) ==
    [ident |-> ident, attr |-> attr, option |-> option, ty |-> ty]

\* A slot is the shape of a member together with the values an instance may
\* hold in it.
Slot(attr, option, ty, values) ==
    [attr |-> attr, option |-> option, ty |-> ty, values |-> values]

Options(values) == {None} \cup {Some(v) : v \in values}

Ident(i) == <<"m">> \o NatToString(i)

\* the declaration whose i-th member has the shape of slot palette[shape[i]]
Declare(table_name, palette, shape) ==
    [table_name |-> table_name,
     members |-> [i \in 1..Len(shape) |->
                    Member(Ident(i), palette[shape[i]].attr,
                           palette[shape[i]].option, palette[shape[i]].ty)]]

RECURSIVE Instances(_, _, _)
Instances(palette, shape, i) ==
    IF i > Len(shape) THEN {<<>>}
    ELSE {<<v>> \o rest : v \in palette[shape[i]].values,
                          rest \in Instances(palette, shape, i + 1)}

Shapes(palette, lengths) ==
    UNION {[1..n -> 1..Len(palette)] : n \in lengths}

\* a record has one timestamp: at most one member carries the attribute
OneTimestamp(palette, shape) ==
    Cardinality({i \in 1..Len(shape) : palette[shape[i]].attr = "timestamp"}) <= 1

home == <<"h", "o", "m", "e">>

\* Structural family: tags, fields and timestamps, present and absent, in
\* every interleaving.
StructTables == {None, Some(<<>>), Some(<<"m", "y", " ", "h">>)}
StructPalette == <<
    Slot("tag", FALSE, "String", {<<>>, <<"a", ",", "b">>}),
    Slot("tag", TRUE, "String", Options({<<>>, <<"k", "=", "v">>})),
    Slot("timestamp", FALSE, "i64", {1735545600}),
    Slot("timestamp", TRUE, "i64", Options({123456})),
    Slot("none", TRUE, "i64", Options({-5})),
    Slot("none", FALSE, "String", {<<"q", "\"", "s">>}),
    Slot("none", FALSE, "f64", {359}) >>

\* Literal family: one or two fields of every supported type, plain and Option.
LiteralValues == <<
    <<"i8", {-128, 127}>>, <<"i16", {-32768, 0}>>, <<"i32", {-1, 2147483647}>>,
    <<"i64", {0, 123456}>>, <<"u8", {0, 255}>>, <<"u16", {65535}>>,
    <<"u32", {7}>>, <<"u64", {123456}>>, <<"f32", {210, -5}>>,
    <<"f64", {359, 0}>>, <<"bool", {TRUE, FALSE}>>,
    <<"String", {<<>>, <<"s", "u", "n", "n", "y">>}>> >>
LiteralPalette ==
    [k \in 1..(2 * Len(LiteralValues)) |->
        IF k <= Len(LiteralValues)
        THEN Slot("none", FALSE, LiteralValues[k][1], LiteralValues[k][2])
        ELSE Slot("none", TRUE, LiteralValues[k - Len(LiteralValues)][1],
                  Options(LiteralValues[k - Len(LiteralValues)][2]))]

\* Escaping family: every string over EscChars up to MaxStrLen, as the table
\* name, the key and the value of a text field, or the key and value of a tag.
EscChars == {",", " ", "=", "\\", "\"", "a"}
Strings(chars, n) == UNION {[1..k -> chars] : k \in 0..n}

\* Limit family: text values around the 64K limit.
Repeat(c, n) == [i \in 1..n |-> c]
LimitPalette == <<
    Slot("none", FALSE, "String",
         {<<"a", "\"">>, Repeat("\"", StringLimit), Repeat("A", StringLimit + 1)}),
    Slot("none", TRUE, "String",
         Options({Repeat("A", StringLimit), Repeat("\\", StringLimit + 1)})),
    Slot("tag", FALSE, "String", {Repeat("A", StringLimit + 1)}) >>

(***************************************************************************)
(* The state machine                                                       *)
(***************************************************************************)
Start(decl, this) ==
    /\ input = decl
    /\ self = this
    /\ gen = NoImpl
    /\ locals = NoFrame
    /\ out = NoResult

InitStruct ==
    \E t \in StructTables : \E sh \in Shapes(StructPalette, 0..MaxMembers) :
        /\ OneTimestamp(StructPalette, sh)
        /\ \E this \in Instances(StructPalette, sh, 1) :
               Start(Declare(t, StructPalette, sh), this)

InitLiteral ==
    \E sh \in Shapes(LiteralPalette, 1..2) :
        \E this \in Instances(LiteralPalette, sh, 1) :
            Start(Declare(Some(home), LiteralPalette, sh), this)

InitEscape ==
    \E s \in Strings(EscChars, MaxStrLen) : \E option \in BOOLEAN :
        \/ Start([table_name |-> Some(s),
                  members |-> <<Member(s, "none", option, "String")>>],
                 <<IF option THEN Some(s) ELSE s>>)
        \/ Start([table_name |-> Some(home),
                  members |-> <<Member(s, "tag", option, "String"),
                                Member(Ident(2), "none", FALSE, "bool")>>],
                 <<IF option THEN Some(s) ELSE s, TRUE>>)

InitLimit ==
    \E sh \in Shapes(LimitPalette, 1..2) :
        \E this \in Instances(LimitPalette, sh, 1) :
            Start(Declare(Some(home), LimitPalette, sh), this)

Init == InitStruct \/ InitLiteral \/ InitEscape

\* the compiler expands #[derive(Influx3Lp)] on the declaration
Derive ==
    /\ gen.status = "none"
    /\ gen' = influx3_lp_macro_derive(input)
    /\ UNCHANGED <<input, self, locals, out>>

\* the program calls self.to_lp() on the generated implementation
ToLp ==
    /\ gen.status = "ok"
    /\ out.kind = "none"
    /\ locals' = Frame(gen, self)
    /\ out' = to_lp(gen, self)
    /\ UNCHANGED <<input, self, gen>>

Next == Derive \/ ToLp

Spec == Init /\ [][Next]_vars

SpecLimit == InitLimit /\ [][Next]_vars

\* every family of programs above
SpecAll == (Init \/ InitLimit) /\ [][Next]_vars

(***************************************************************************)
(* The record an instance stands for: its measurement, its tag and field   *)
(* entries in declared order, its timestamp.                               *)
(***************************************************************************)
Encoded == out.kind # "none"

Present(i) == IF input.members[i].option THEN IsSome(self[i]) ELSE TRUE
Value(i) == IF input.members[i].option THEN Unwrap(self[i]) ELSE self[i]
Key(i) == input.members[i].ident
Type(i) == input.members[i].ty

\* the members declared with attribute attr, from the i-th on, in declared order
RECURSIVE Declared(_, _)
Declared(attr, i) ==
    IF i > Len(input.members) THEN <<>>
    ELSE (IF input.members[i].attr = attr THEN <<i>> ELSE <<>>)
         \o Declared(attr, i + 1)

\* those of them that hold a value
RECURSIVE Holding(_)
Holding(idx) ==
    IF idx = <<>> THEN <<>>
    ELSE (IF Present(Head(idx)) THEN <<Head(idx)>> ELSE <<>>) \o Holding(Tail(idx))

PresentTags == Holding(Declared("tag", 1))
PresentFields == Holding(Declared("none", 1))
PresentTimestamps == Holding(Declared("timestamp", 1))

(***************************************************************************)
(* C1                                                                      *)
(***************************************************************************)
NamedMeasurement == IsSome(input.table_name) /\ Unwrap(input.table_name) # <<>>

\* C1: encoding a record none of whose field entries holds a value fails
\* (NoFields) and returns no line, whatever its tags and timestamp.  (Stated
\* for records with a non-empty measurement name, which are valid otherwise.)
C1_NoFieldsFails ==
    (Encoded /\ NamedMeasurement /\ PresentFields = <<>>) => out.kind = "panic"

(***************************************************************************)
(* The line protocol's rendering of a record, written from the grammar     *)
(*   measurement[,tag_key=tag_value...] field_key=field_value...[ timestamp]*)
(***************************************************************************)
\* s with each character of chars prefixed by one backslash, in one pass
RECURSIVE EscapeOnce(_, _)
EscapeOnce(s, chars) ==
    IF s = <<>> THEN <<>>
    ELSE (IF Head(s) \in chars THEN <<"\\", Head(s)>> ELSE <<Head(s)>>)
         \o EscapeOnce(Tail(s), chars)

MeasurementSpecials == {",", " "}
KeySpecials == {",", " ", "="}
TextSpecials == {"\\", "\""}

Literal(ty, v) ==
    CASE ty \in SignedTypes -> IntToString(v) \o <<"i">>
      [] ty \in UnsignedTypes -> IntToString(v) \o <<"u">>
      [] ty \in FloatTypes -> FloatToString(v)
      [] ty = "bool" -> IF v THEN <<"t", "r", "u", "e">> ELSE <<"f", "a", "l", "s", "e">>
      [] ty = "String" -> <<"\"">> \o EscapeOnce(v, TextSpecials) \o <<"\"">>

TagToken(i) ==
    EscapeOnce(Key(i), KeySpecials) \o <<"=">> \o EscapeOnce(Value(i), KeySpecials)
FieldToken(i) ==
    EscapeOnce(Key(i), KeySpecials) \o <<"=">> \o Literal(Type(i), Value(i))

\* the tokens of the entries idx, each preceded by a comma
RECURSIVE CommaEach(_, _)
CommaEach(Token(_), idx) ==
    IF idx = <<>> THEN <<>>
    ELSE <<",">> \o Token(Head(idx)) \o CommaEach(Token, Tail(idx))

Measurement == EscapeOnce(Unwrap(input.table_name), MeasurementSpecials)
TagSegment == CommaEach(TagToken, PresentTags)
FieldSegment ==
    IF PresentFields = <<>> THEN <<>> ELSE Tail(CommaEach(FieldToken, PresentFields))
TimestampSegment ==
    IF PresentTimestamps = <<>> THEN <<>>
    ELSE <<" ">> \o IntToString(Value(Head(PresentTimestamps)))

(***************************************************************************)
(* C2                                                                      *)
(***************************************************************************)
\* C2: a returned line is the measurement, then the tokens of the present
\* tags in the tags' declared order, then one space, then the tokens of the
\* present fields in the fields' declared order, then the timestamp segment,
\* however the tag, field and timestamp members are interleaved in the
\* declaration.
C2_DeclaredOrder ==
    out.kind = "line" =>
        /\ locals.parts = [k \in 1..Len(PresentTags) |-> TagToken(PresentTags[k])]
        /\ locals.fields = [k \in 1..Len(PresentFields) |-> FieldToken(PresentFields[k])]
        /\ out.line = Measurement \o TagSegment \o <<" ">> \o FieldSegment
                                   \o TimestampSegment

\* a tag declared after a field and a timestamp, all present
C2_Witness ==
    /\ out.kind = "line"
    /\ PresentTags # <<>> /\ PresentFields # <<>> /\ PresentTimestamps # <<>>
    /\ Head(PresentFields) < Head(PresentTimestamps)
    /\ Head(PresentTimestamps) < Head(PresentTags)

(***************************************************************************)
(* C3                                                                      *)
(***************************************************************************)
TextField(i) == input.members[i].attr = "none" /\ Type(i) = "String"

\* C3: encoding fails with FieldTooLarge if and only if some present text
\* field value is longer than 65536 bytes before escaping; a value of exactly
\* 65536 bytes encodes, also when its escaped form is longer; Option<String>
\* and String fields alike.
C3_TooLargeIff ==
    Encoded =>
        /\ out.kind = "panic" <=>
               \E i \in 1..Len(input.members) :
                   TextField(i) /\ Present(i) /\ Len(Value(i)) > 65536
        /\ out.kind = "panic" => out.msg = StringLimitMessage

\* a text field of exactly 65536 bytes whose escaped form is twice as long
C3_Witness ==
    /\ out.kind = "line"
    /\ \E i \in 1..Len(input.members) :
           TextField(i) /\ Present(i) /\ Len(Value(i)) = 65536
    /\ Len(out.line) > 2 * 65536

(***************************************************************************)
(* C4                                                                      *)
(***************************************************************************)
Front(s) == SubSeq(s, 1, Len(s) - 1)
Last(s) == s[Len(s)]
Digits == {Digit(d) : d \in 0..9}
DigitValue(c) == CHOOSE d \in 0..9 : Digit(d) = c

\* reading decimal digits back
RECURSIVE ParseNat(_)
ParseNat(s) ==
    IF Len(s) = 0 THEN 0 ELSE ParseNat(Front(s)) * 10 + DigitValue(Last(s))

IsDecimal(s) ==
    /\ Len(s) > 0
    /\ \A k \in 1..Len(s) : s[k] \in Digits
    /\ Len(s) > 1 => s[1] # "0"
Unsigned(s) == IF Len(s) > 0 /\ s[1] = "-" THEN Tail(s) ELSE s
IsSignedDecimal(s) == IsDecimal(Unsigned(s))
ParseInt(s) == IF Unsigned(s) = s THEN ParseNat(s) ELSE 0 - ParseNat(Tail(s))

\* a float literal [-]digits[.digit], read back in tenths
DotAt(s) == {k \in 1..Len(s) : s[k] = "."}
IsFloatForm(s) ==
    LET u == Unsigned(s)
    IN  IF DotAt(u) = {} THEN IsDecimal(u)
        ELSE /\ DotAt(u) = {Len(u) - 1}
             /\ IsDecimal(SubSeq(u, 1, Len(u) - 2))
             /\ Last(u) \in Digits \ {"0"}
FloatValue(s) ==
    LET u == Unsigned(s)
        a == IF DotAt(u) = {} THEN ParseNat(u) * 10
             ELSE ParseNat(SubSeq(u, 1, Len(u) - 2)) * 10 + DigitValue(Last(u))
    IN  IF u = s THEN a ELSE 0 - a

\* the text after "key=" in the token pushed for field member i
LiteralOf(tok, i) ==
    SubSeq(tok, Len(EscapeOnce(Key(i), KeySpecials)) + 2, Len(tok))

\* C4: the literal of a signed integer field (i8, i16, i32, i64) is its
\* decimal digits followed by i, of an unsigned integer field (u8, u16, u32,
\* u64) its decimal digits followed by u, of a boolean field bare true or
\* false, of a float field its decimal form with no suffix and no quotes:
\* the suffix follows the declared type, not the value.
C4_Literals ==
    out.kind = "line" =>
        /\ Len(locals.fields) = Len(PresentFields)
        /\ \A k \in 1..Len(PresentFields) :
               LET i == PresentFields[k]
                   lit == LiteralOf(locals.fields[k], i)
               IN  /\ Len(lit) > 0
                   /\ Type(i) \in SignedTypes =>
                          /\ Last(lit) = "i"
                          /\ IsSignedDecimal(Front(lit))
                          /\ ParseInt(Front(lit)) = Value(i)
                   /\ Type(i) \in UnsignedTypes =>
                          /\ Last(lit) = "u"
                          /\ IsDecimal(Front(lit))
                          /\ ParseNat(Front(lit)) = Value(i)
                   /\ Type(i) = "bool" =>
                          lit = IF Value(i) THEN <<"t", "r", "u", "e">>
                                ELSE <<"f", "a", "l", "s", "e">>
                   /\ Type(i) \in FloatTypes =>
                          /\ IsFloatForm(lit)
                          /\ FloatValue(lit) = Value(i)

\* a signed and an unsigned field holding the same number, and a float
C4_Witness ==
    /\ out.kind = "line"
    /\ \E i, j \in 1..Len(input.members) :
           /\ input.members[i].attr = "none" /\ input.members[j].attr = "none"
           /\ Present(i) /\ Present(j)
           /\ Type(i) \in SignedTypes /\ Type(j) \in UnsignedTypes
           /\ Value(i) = Value(j)

(***************************************************************************)
(* C5                                                                      *)
(***************************************************************************)
\* C5: one escaping pass outside text values: the rendered measurement is
\* the raw name with each comma and space prefixed by one backslash; a
\* rendered tag key, tag value and field key is the raw string with each
\* comma, space and equals sign prefixed by one backslash; every other
\* character, backslash and double quote included, is copied, and no inserted
\* backslash is escaped again.
C5_OneEscapingPass ==
    /\ gen.status = "ok" =>
           /\ gen.table_name = EscapeOnce(Unwrap(input.table_name), MeasurementSpecials)
           /\ \A k \in 1..Len(gen.tags) :
                  gen.tags[k].key = EscapeOnce(Key(gen.tags[k].idx), KeySpecials)
           /\ \A k \in 1..Len(gen.fields) :
                  gen.fields[k].key = EscapeOnce(Key(gen.fields[k].idx), KeySpecials)
    /\ out.kind = "line" =>
           /\ Len(locals.parts) = Len(PresentTags)
           /\ \A k \in 1..Len(PresentTags) :
                  LET i == PresentTags[k]
                      key == EscapeOnce(Key(i), KeySpecials)
                  IN  /\ SubSeq(locals.parts[k], 1, Len(key) + 1) = key \o <<"=">>
                      /\ SubSeq(locals.parts[k], Len(key) + 2, Len(locals.parts[k]))
                             = EscapeOnce(Value(i), KeySpecials)
           /\ SubSeq(out.line, 1, Len(gen.table_name)) = gen.table_name

\* a tag whose key and value hold a comma, a backslash and an equals sign
C5_Witness ==
    /\ out.kind = "line"
    /\ PresentTags # <<>>
    /\ Key(Head(PresentTags)) = <<",", "\\", "=">>
    /\ Value(Head(PresentTags)) = <<",", "\\", "=">>

(***************************************************************************)
(* C6                                                                      *)
(***************************************************************************)
\* C6: the literal of a text field value within the length limit is a double
\* quote, the raw value with each backslash doubled and each double quote
\* prefixed by one backslash, and a double quote; commas, spaces and equals
\* signs stay as they are, and the backslash put before a double quote is
\* not doubled.
C6_TextLiteral ==
    out.kind = "line" =>
        /\ Len(locals.fields) = Len(PresentFields)
        /\ \A k \in 1..Len(PresentFields) :
               LET i == PresentFields[k]
                   lit == LiteralOf(locals.fields[k], i)
               IN  Type(i) = "String" =>
                       /\ Len(lit) >= 2
                       /\ lit[1] = "\"" /\ Last(lit) = "\""
                       /\ SubSeq(lit, 2, Len(lit) - 1) = EscapeOnce(Value(i), TextSpecials)

\* a text value holding a double quote, a backslash and a comma
C6_Witness ==
    /\ out.kind = "line"
    /\ PresentFields # <<>>
    /\ Type(Head(PresentFields)) = "String"
    /\ Value(Head(PresentFields)) = <<"\"", "\\", ",">>

(***************************************************************************)
(* C7                                                                      *)
(***************************************************************************)
\* C7: an absent tag value leaves no token for the tag, neither key nor
\* equals sign; a present empty tag value leaves the token key= with nothing
\* after the equals sign.
C7_AbsentAndEmptyTags ==
    out.kind = "line" =>
        /\ Len(locals.parts) = Len(PresentTags)
        /\ \A k \in 1..Len(PresentTags) :
               Value(PresentTags[k]) = <<>> =>
                   locals.parts[k] = EscapeOnce(Key(PresentTags[k]), KeySpecials) \o <<"=">>
        /\ PresentTags = <<>> =>
               (locals.tags_str = <<>>
                /\ out.line[Len(gen.table_name) + 1] = " ")
        /\ Len(locals.tags_str) =
               Len(CommaEach(TagToken, PresentTags))

\* an absent Option tag next to a present empty one
C7_Witness ==
    /\ out.kind = "line"
    /\ Len(PresentTags) = 1
    /\ Len(Declared("tag", 1)) = 2
    /\ Value(Head(PresentTags)) = <<>>
    /\ input.members[Head(PresentTags)].option

(***************************************************************************)
(* C8                                                                      *)
(***************************************************************************)
\* C8: with a timestamp present, a returned line ends with exactly one space
\* followed by the timestamp's decimal digits; with the timestamp absent (no
\* timestamp member, or an Option timestamp holding None) it ends with the
\* last character of the field segment, with no trailing space.  (Stated for
\* records with a non-empty measurement name.)
C8_TimestampSegment ==
    (out.kind = "line" /\ NamedMeasurement) =>
        IF PresentTimestamps # <<>>
        THEN LET digits == IntToString(Value(Head(PresentTimestamps)))
                 n == Len(out.line) - Len(digits)
             IN  /\ n >= 2
                 /\ SubSeq(out.line, n + 1, Len(out.line)) = digits
                 /\ out.line[n] = " "
                 /\ out.line[n - 1] # " "
        ELSE /\ Len(out.line) > 0
             /\ Last(out.line) # " "

(***************************************************************************)
(* C9                                                                      *)
(***************************************************************************)
\* the length of the first k tokens of v, each with one separator
RECURSIVE Span(_, _)
Span(v, k) == IF k = 0 THEN 0 ELSE Span(v, k - 1) + Len(v[k]) + 1

\* C9: whichever Option tags and fields are absent, a returned line has no
\* dangling separator: every present tag token is preceded by exactly one
\* comma, the space follows the last tag token (the measurement itself when
\* no tag is present), consecutive field tokens have exactly one comma
\* between them, and nothing but the timestamp segment follows the last
\* field token.
C9_NoDanglingSeparators ==
    out.kind = "line" =>
        LET line == out.line
            parts == locals.parts
            fields == locals.fields
            m == Len(gen.table_name)
            tagEnd == m + Span(parts, Len(parts))
            fieldEnd == IF fields = <<>> THEN tagEnd + 1
                        ELSE tagEnd + Span(fields, Len(fields))
        IN  /\ Len(parts) = Len(PresentTags)
            /\ Len(fields) = Len(PresentFields)
            /\ Len(line) = fieldEnd
                   + (IF PresentTimestamps = <<>> THEN 0 ELSE 1 + Len(locals.ts))
            /\ \A k \in 1..Len(parts) :
                   LET c == m + Span(parts, k - 1) + 1
                   IN  /\ line[c] = ","
                       /\ SubSeq(line, c + 1, c + Len(parts[k])) = parts[k]
            /\ line[tagEnd + 1] = " "
            /\ \A k \in 1..Len(fields) :
                   LET c == tagEnd + Span(fields, k - 1) + 1
                   IN  /\ line[c] = IF k = 1 THEN " " ELSE ","
                       /\ SubSeq(line, c + 1, c + Len(fields[k])) = fields[k]
            /\ PresentTimestamps # <<>> => line[fieldEnd + 1] = " "

\* the first declared tag and the first declared field absent, later ones present
C9_Witness ==
    /\ out.kind = "line"
    /\ Len(Declared("tag", 1)) + Len(Declared("none", 1)) >= 3
    /\ ~Present(Head(Declared("tag", 1)))
    /\ Len(PresentTags) + Len(PresentFields) >= 1
    /\ \E i \in 1..Len(input.members) : input.members[i].attr = "none" /\ ~Present(i)

\* no tag present: the measurement is followed directly by the space
C9_WitnessNoTag ==
    /\ out.kind = "line"
    /\ Declared("tag", 1) # <<>> /\ PresentTags = <<>> /\ PresentFields # <<>>

(***************************************************************************)
(* C10                                                                     *)
(***************************************************************************)
\* C10: encoding a record whose measurement name is the empty string fails
\* (InvalidMeasurement) and returns no line, whatever its tags, fields and
\* timestamp.  (Stated for records with a present field, valid otherwise.)
C10_EmptyMeasurementFails ==
    (IsSome(input.table_name) /\ Unwrap(input.table_name) = <<>>
        /\ PresentFields # <<>>)
        => out.kind # "line"

(***************************************************************************)
(* C11                                                                     *)
(***************************************************************************)
Contains(s, sub) ==
    \E k \in 1..(Len(s) - Len(sub) + 1) : SubSeq(s, k, k + Len(sub) - 1) = sub

TooLarge(i) == TextField(i) /\ Present(i) /\ Len(Value(i)) > 65536

\* C11 as claimed: when encoding fails with FieldTooLarge, the reported error
\* names the key of a text field whose value exceeded the 65536-byte ceiling.
C11_ErrorNamesFieldKey ==
    out.kind = "panic" =>
        \E i \in 1..Len(input.members) : TooLarge(i) /\ Contains(out.msg, Key(i))

\* C11 as amended: when encoding fails with FieldTooLarge, the reported error
\* is the fixed text "Length of string field value has a limit of 64K",
\* whichever text field exceeded the ceiling; it names no field key.
C11_FixedMessage ==
    out.kind = "panic" =>
        /\ \E i \in 1..Len(input.members) : TooLarge(i)
        /\ out.msg = StringLimitMessage
        /\ \A i \in 1..Len(input.members) : ~Contains(out.msg, Key(i))

\* the second of two text fields is the one that exceeded the ceiling
C11_Witness ==
    /\ out.kind = "panic"
    /\ Len(input.members) = 2
    /\ TextField(1) /\ ~TooLarge(1)
    /\ TooLarge(2)

(***************************************************************************)
(* C12                                                                     *)
(***************************************************************************)
Derived == gen.status # "none"

\* C12: a record type that declares no field entry (all members are tags or
\* timestamps, or there are none) is rejected when the encoder is built,
\* however many tags it declares, and no encode call happens for it; a record
\* type with at least one declared field entry is accepted.  A record type
\* has a measurement name: the acceptance is stated for declarations that
\* carry the table_name attribute.
C12_NoFieldRejected ==
    Derived =>
        /\ Declared("none", 1) = <<>> =>
               /\ gen.status = "panic"
               /\ IsSome(input.table_name) => gen.msg = NoFieldMessage
               /\ out.kind = "none"
        /\ (Declared("none", 1) # <<>> /\ IsSome(input.table_name)) =>
               gen.status = "ok"

\* a named record type with two tags, a timestamp and no field is rejected
C12_Witness ==
    /\ gen.status = "panic"
    /\ gen.msg = NoFieldMessage
    /\ Len(Declared("tag", 1)) = 2
    /\ Len(Declared("timestamp", 1)) = 1

(***************************************************************************)
(* C13                                                                     *)
(***************************************************************************)
\* the declaration with member i declared the other way (Option<ty> for ty,
\* ty for Option<ty>), and the instance holding the same value in it
Redeclared(i) == [input EXCEPT !.members[i].option = ~@]
Reheld(i) == [self EXCEPT ![i] = IF input.members[i].option THEN Unwrap(@) ELSE Some(@)]

\* C13: for every field kind and every value v, once the record is encoded,
\* a field declared Option<ty> holding Some(v) and a field with the same key
\* declared ty holding v push the same key=value token, and fail with the
\* same length error: the two formatting branches agree.
C13_BranchesAgree ==
    Encoded =>
        \A i \in 1..Len(input.members) :
            (input.members[i].attr = "none" /\ Present(i)) =>
                FieldPush(FieldCode(Redeclared(i).members, i), Reheld(i))
                    = FieldPush(FieldCode(input.members, i), self)

\* the call has failed on an Option<String> field holding a value above 64K
C13_Witness ==
    /\ out.kind = "panic"
    /\ Len(input.members) = 1
    /\ TooLarge(1) /\ input.members[1].option

====
